---------------------------- MODULE Spec2Model ----------------------------
(***************************************************************************)
(* exo_task: the waking executor (src/src/executor.rs), the task and its   *)
(* identifier generator (src/src/task.rs).                                 *)
(*                                                                         *)
(* Contexts of execution:                                                  *)
(*   - the executor's own thread of control: main (Task::new, spawn), then *)
(*     Executor::run (run_ready_tasks / sleep_if_idle, for ever);          *)
(*   - the task being resumed, which may invoke wakers it holds;           *)
(*   - interrupt handlers, which run only while interrupts are enabled and *)
(*     end a hlt;                                                          *)
(*   - other threads of control, which run at any time.                    *)
(* Only the ArrayQueue is shared between contexts; every access to it is   *)
(* one atomic step.  tasks and waker_cache are touched by the executor's   *)
(* thread alone, so consecutive accesses to them are one step.             *)
(***************************************************************************)
EXTENDS Naturals, Integers, Sequences, FiniteSets, TLC

\* ArrayQueue::new(100)
QueueCapacity == 100

\* Bounds of the exploration.
MaxTasks == 2      \* calls of Task::new explored from Init
MaxSusp == 2       \* a future returns Pending at most this many times
MaxWakes == 2      \* invocations of wakers explored
FullTasks == 1     \* calls of Task::new explored from InitFull
FullWakes == 2     \* invocations of wakers explored from InitFull
MaxUnspawned == 1  \* Tasks built and not yet spawned at any one time
SimpleTasks == 3   \* calls of Task::new explored from InitSimple
SimpleWakes == 1   \* invocations of dummy wakers explored

VARIABLES
    NEXT_ID,       \* task.rs: static NEXT_ID: AtomicU64
    newTasks,      \* Tasks built by Task::new and not yet handed to spawn
    tasks,         \* Executor.tasks: BTreeMap<TaskId, Task>
    task_queue,    \* Executor.task_queue: ArrayQueue<TaskId>, oldest first
    waker_cache,   \* Executor.waker_cache: BTreeMap<TaskId, Waker>
    pc,            \* where the executor's thread of control is
    task_id,       \* spawn's local `task_id`, between insert and push
    resuming,      \* the resumes (Task::poll calls) in progress, oldest first
    interrupts,    \* TRUE iff delivery of external interrupts is enabled
    x86_64_support,\* the cargo feature: TRUE iff sleep_if_idle uses cli/hlt
    escaped,       \* wakers cloned out of a Context by a future
    newBudget,     \* calls of Task::new still explored
    wakeBudget,    \* invocations of wakers still explored
    issued,        \* history: the identifiers TaskId::new returned, in order,
                   \*   each with whether a task had completed by then
    shape,         \* history: id -> number of Pending the future returns
    polls,         \* history: id -> resumes started
    wakes,         \* history: id -> invocations of a waker bound to id
    done,          \* history: ids whose resume returned Poll::Ready
    pushed,        \* history: number of successful pushes on task_queue
    lastPop,       \* history: the entry popped last
    passStart,     \* history: `pushed` when the current drain pass began
    fatal          \* history: the panics raised, in order, as
                   \*   <<context, message>>

vars == <<NEXT_ID, newTasks, tasks, task_queue, waker_cache, pc, task_id,
          resuming, interrupts, x86_64_support, escaped, newBudget,
          wakeBudget, issued, shape, polls, wakes, done, pushed, lastPop,
          passStart, fatal>>

\* Option::None, where the model needs a value for it.
None == 0 - 1

-----------------------------------------------------------------------------
(* Data types and library operations as the code uses them.                *)

\* A future is modelled by what the executor can observe of it: how many
\* more times it returns Poll::Pending, and whether it clones the Waker of
\* the Context it is polled with.  A future that clones it may have it
\* invoked any number of times, or never; Trivial (async {}) does not.
Shapes == [pending : 0..MaxSusp, uses_waker : {TRUE}]
Trivial == [pending |-> 0, uses_waker |-> FALSE]
Immediate == [pending |-> 0, uses_waker |-> TRUE]

\* An insert whose result says nothing of the old value.
BTreeMapInsertBlind(m, k, v) ==
    [is_some |-> FALSE,
     map |-> [x \in DOMAIN m \cup {k} |-> IF x = k THEN v ELSE m[x]]]

\* BTreeMap::insert: returns the old value's presence (`is_some()`).
BTreeMapInsert(m, k, v) ==
    [is_some |-> k \in DOMAIN m,
     map |-> [x \in DOMAIN m \cup {k} |-> IF x = k THEN v ELSE m[x]]]

\* BTreeMap::remove
BTreeMapRemove(m, k) == [x \in DOMAIN m \ {k} |-> m[x]]

\* ArrayQueue::push: Err(value) when the queue is full.
ArrayQueuePush(q, cap, v) ==
    IF Len(q) < cap
    THEN [ok |-> TRUE, queue |-> Append(q, v)]
    ELSE [ok |-> FALSE, queue |-> q]

\* A pop that takes the newest element.
ArrayQueuePopNewest(q) ==
    IF q = <<>>
    THEN [some |-> FALSE, queue |-> q]
    ELSE [some |-> TRUE, value |-> q[Len(q)],
          queue |-> SubSeq(q, 1, Len(q) - 1)]

\* ArrayQueue::pop: the oldest element; None when the queue is empty.
ArrayQueuePop(q) ==
    IF q = <<>>
    THEN [some |-> FALSE, queue |-> q]
    ELSE [some |-> TRUE, value |-> Head(q), queue |-> Tail(q)]

\* An entry of task_queue: the TaskId, and (history) its push number and
\* whether its task had completed when it was pushed.
Entry(id, n) == [id |-> id, seq |-> n, late |-> id \in done]

Ids(q) == {q[i].id : i \in DOMAIN q}

\* History functions grow with the identifiers issued.
Extend(f, k, v) == [x \in DOMAIN f \cup {k} |-> IF x = k THEN v ELSE f[x]]

-----------------------------------------------------------------------------
(* task.rs                                                                 *)

\* A load in place of the fetch_add: the counter is read and not advanced.
TaskIdNewLoad(counter) == [id |-> counter, next |-> counter]

\* TaskId::new: NEXT_ID.fetch_add(1, Relaxed) returns the previous value.
\* (u64 wrap-around is 2^64 creations away.)
TaskIdNew(counter) == [id |-> counter, next |-> counter + 1]

\* Task::poll delegates to the future.
TaskPoll(task) ==
    IF task.future.pending = 0
    THEN [poll |-> "Ready", task |-> task]
    ELSE [poll |-> "Pending",
          task |-> [task EXCEPT !.future.pending = @ - 1]]

\* Task::new, from any context, at any time.
TaskNew(f) ==
    /\ newBudget > 0
    /\ Cardinality(newTasks) < MaxUnspawned
    /\ LET r == TaskIdNew(NEXT_ID) IN
        /\ NEXT_ID' = r.next
        /\ newTasks' = newTasks \cup {[id |-> r.id, future |-> f]}
        /\ issued' = Append(issued, [id |-> r.id, late |-> done # {}])
        /\ shape' = Extend(shape, r.id, f.pending)
        /\ polls' = Extend(polls, r.id, 0)
        /\ wakes' = Extend(wakes, r.id, 0)
    /\ newBudget' = newBudget - 1
    /\ UNCHANGED <<wakeBudget, tasks, task_queue, waker_cache, pc, task_id, resuming,
                   interrupts, x86_64_support, escaped, done, pushed,
                   lastPop, passStart, fatal>>

-----------------------------------------------------------------------------
(* executor.rs: Executor::new, Executor::spawn                             *)

Panic(ctx, msg) == Append(fatal, <<ctx, msg>>)

\* spawn, lines 36-39: insert into the table; panic when the id was present.
SpawnInsert(task) ==
    /\ pc = "main"
    /\ task \in newTasks
    /\ newTasks' = newTasks \ {task}
    /\ LET r == BTreeMapInsert(tasks, task.id, task) IN
        /\ tasks' = r.map
        /\ IF r.is_some
           THEN /\ pc' = "panic"
                /\ fatal' = Panic("spawn", "task with same ID already in tasks")
                /\ UNCHANGED task_id
           ELSE /\ pc' = "spawn"
                /\ task_id' = task.id
                /\ UNCHANGED fatal
    /\ UNCHANGED <<NEXT_ID, task_queue, waker_cache, resuming, interrupts,
                   x86_64_support, escaped, newBudget, wakeBudget, issued, shape, polls,
                   wakes, done, pushed, lastPop, passStart>>

\* spawn, line 40: task_queue.push(task_id).expect("queue full")
SpawnPush ==
    /\ pc = "spawn"
    /\ LET r == ArrayQueuePush(task_queue, QueueCapacity,
                               Entry(task_id, pushed + 1)) IN
        IF r.ok
        THEN /\ task_queue' = r.queue
             /\ pushed' = pushed + 1
             /\ pc' = "main"
             /\ UNCHANGED fatal
        ELSE /\ pc' = "panic"
             /\ fatal' = Panic("spawn", "queue full")
             /\ UNCHANGED <<task_queue, pushed>>
    /\ task_id' = None
    /\ UNCHANGED <<NEXT_ID, newTasks, tasks, waker_cache, resuming,
                   interrupts, x86_64_support, escaped, newBudget, wakeBudget, issued,
                   shape, polls, wakes, done, lastPop, passStart>>

\* run, lines 48-50: the caller gives up the executor for good (-> !), so
\* every spawn precedes the first drain pass.
Run ==
    /\ pc = "main"
    /\ pc' = "run_ready_tasks"
    /\ passStart' = pushed
    /\ UNCHANGED <<NEXT_ID, newTasks, tasks, task_queue, waker_cache, task_id,
                   resuming, interrupts, x86_64_support, escaped, newBudget, wakeBudget,
                   issued, shape, polls, wakes, done, pushed, lastPop, fatal>>

-----------------------------------------------------------------------------
(* executor.rs: TaskWaker                                                  *)

\* TaskWaker::new: a waker bound to one TaskId and to the executor's queue
\* (the model has the one queue, so the handle is left out).
TaskWakerNew(id) == [task_id |-> id]

\* A wake_task that ignores the Err of a full queue.
WakeTaskPushIgnoreErr(w, q, n) ==
    [ok |-> TRUE,
     queue |-> ArrayQueuePush(q, QueueCapacity, [id |-> w.task_id, seq |-> n + 1,
                                                late |-> w.task_id \in done]).queue]

\* A wake_task that pushes the identifier after the one it is bound to.
WakeTaskPushWrongId(w, q, n) ==
    ArrayQueuePush(q, QueueCapacity,
                   [id |-> w.task_id + 1, seq |-> n + 1, late |-> FALSE])

\* TaskWaker::wake_task: self.task_queue.push(self.task_id)
WakeTaskPush(w, q, n) ==
    ArrayQueuePush(q, QueueCapacity, Entry(w.task_id, n + 1))

\* wake / wake_by_ref -> wake_task, invoked in context ctx on a waker that a
\* future cloned out of its Context.  `.expect("task_queue full")` panics in
\* the invoking context: pcFail is where that leaves the executor's thread.
WakeTask(w, ctx, pcOk, pcFail) ==
    /\ w \in escaped
    /\ wakeBudget > 0
    /\ wakeBudget' = wakeBudget - 1
    /\ wakes' = [wakes EXCEPT ![w.task_id] = @ + 1]
    /\ LET r == WakeTaskPush(w, task_queue, pushed) IN
        IF r.ok
        THEN /\ task_queue' = r.queue
             /\ pushed' = pushed + 1
             /\ pc' = pcOk
             /\ UNCHANGED fatal
        ELSE /\ pc' = pcFail
             /\ fatal' = Panic(ctx, "task_queue full")
             /\ UNCHANGED <<task_queue, pushed>>
    /\ passStart' = IF pc = "hlt" /\ pc' = "run_ready_tasks"
                    THEN pushed' ELSE passStart
    /\ UNCHANGED <<NEXT_ID, newTasks, tasks, waker_cache, task_id, resuming,
                   interrupts, x86_64_support, escaped, newBudget, issued,
                   shape, polls, done, lastPop>>

\* The future being resumed invokes a waker it holds; a panic unwinds
\* through Task::poll and Executor::run.
WakeFromTask(w) ==
    /\ pc = "poll"
    /\ WakeTask(w, "task", pc, "panic")

\* An interrupt handler invokes a waker.  Handlers run only while delivery
\* is enabled; an interrupt ends a hlt, and the run loop goes round.
WakeFromInterrupt(w) ==
    /\ pc # "panic"
    /\ interrupts
    /\ WakeTask(w, "interrupt", IF pc = "hlt" THEN "run_ready_tasks" ELSE pc,
                "panic")

\* Another thread of control invokes a waker.  Its panic unwinds that
\* thread only, or aborts the process, as the build decides.
WakeFromThread(w) ==
    /\ pc # "panic"
    /\ \E abort \in BOOLEAN :
           WakeTask(w, "thread", pc, IF abort THEN "panic" ELSE pc)

\* An interrupt whose handler invokes no waker ends a hlt all the same.
Interrupt ==
    /\ pc = "hlt"
    /\ interrupts
    /\ pc' = "run_ready_tasks"
    /\ passStart' = pushed
    /\ UNCHANGED <<NEXT_ID, newTasks, tasks, task_queue, waker_cache, task_id,
                   resuming, interrupts, x86_64_support, escaped, newBudget, wakeBudget,
                   issued, shape, polls, wakes, done, pushed, lastPop, fatal>>

-----------------------------------------------------------------------------
(* executor.rs: Executor::run_ready_tasks                                  *)

\* lines 71-73: waker_cache.entry(task_id).or_insert_with(TaskWaker::new)
WakerCacheEntry(wc, id) ==
    IF id \in DOMAIN wc THEN wc ELSE Extend(wc, id, TaskWakerNew(id))

\* A loop body that fetches or creates the waker before it looks the task up.
LoopBodyWakerFirst(m, wc, id) ==
    [resume |-> id \in DOMAIN m,
     waker_cache |-> IF id \in DOMAIN wc THEN wc
                     ELSE [x \in DOMAIN wc \cup {id} |->
                             IF x = id THEN [task_id |-> id] ELSE wc[x]]]

\* lines 67-74: the loop body up to the poll, for the popped identifier:
\* skip an identifier with no task, else fetch or create the cached waker.
LoopBody(m, wc, id) ==
    IF id \notin DOMAIN m
    THEN [resume |-> FALSE, waker_cache |-> wc]
    ELSE [resume |-> TRUE, waker_cache |-> WakerCacheEntry(wc, id)]

\* A resume handed to another thread of control: the loop goes on at once.
InPollDetached == "run_ready_tasks"

\* line 75: task.poll(&mut context) is a call: the executor's thread is
\* inside it until it returns.
InPoll == "poll"

\* A Poll::Ready arm that forgets tasks.remove.
OnReadyKeepTask(m, wc, id) ==
    [tasks |-> m, waker_cache |-> [x \in DOMAIN wc \ {id} |-> wc[x]]]

\* A Poll::Ready arm that removes nothing.
OnReadyKeepBoth(m, wc, id) == [tasks |-> m, waker_cache |-> wc]

\* A Poll::Ready arm that forgets waker_cache.remove.
OnReadyKeepWaker(m, wc, id) ==
    [tasks |-> [x \in DOMAIN m \ {id} |-> m[x]], waker_cache |-> wc]

\* lines 76-80: Poll::Ready(()) removes the task and its cached waker.
OnReady(m, wc, id) ==
    [tasks |-> BTreeMapRemove(m, id), waker_cache |-> BTreeMapRemove(wc, id)]

\* A Poll::Pending arm that puts the identifier back itself.
OnPendingRequeue(q, n, id) ==
    IF Len(q) < QueueCapacity
    THEN Append(q, [id |-> id, seq |-> n + 1, late |-> FALSE])
    ELSE q

\* A Poll::Pending arm that clears the task's identifiers from the queue.
OnPendingForget(q, n, id) == SelectSeq(q, LAMBDA e : e.id # id)

\* line 81: Poll::Pending => {} leaves the queue as it is.
OnPending(q, n, id) == q

\* An `if let` in place of the `while let`: a pass may end with entries left.
PassOverIfLet(q) == Len(q) <= 1

\* line 66: `while let Some(task_id) = task_queue.pop()`: the pass is over
\* when pop() returns None, and not before.
PassOver(q) == ~ArrayQueuePop(q).some

\* line 66: pop() returns None: run_ready_tasks returns.
DrainEmpty ==
    /\ pc = "run_ready_tasks"
    /\ PassOver(task_queue)
    /\ pc' = "sleep_if_idle"
    /\ UNCHANGED <<NEXT_ID, newTasks, tasks, task_queue, waker_cache, task_id,
                   resuming, interrupts, x86_64_support, escaped, newBudget, wakeBudget,
                   issued, shape, polls, wakes, done, pushed, lastPop,
                   passStart, fatal>>

\* lines 66-70: the popped identifier has no task: continue.
DrainStale ==
    /\ pc = "run_ready_tasks"
    /\ ~PassOver(task_queue)
    /\ LET p == ArrayQueuePop(task_queue) IN
        /\ p.some
        /\ LET b == LoopBody(tasks, waker_cache, p.value.id) IN
            /\ ~b.resume
            /\ waker_cache' = b.waker_cache
        /\ task_queue' = p.queue
        /\ lastPop' = p.value
    /\ UNCHANGED <<NEXT_ID, newTasks, tasks, pc, task_id, resuming,
                   interrupts, x86_64_support, escaped, newBudget, wakeBudget, issued,
                   shape, polls, wakes, done, pushed, passStart, fatal>>

\* lines 66-75: the popped identifier has a task: its resume starts, with
\* the cached waker in the Context.
DrainResume ==
    /\ pc = "run_ready_tasks"
    /\ ~PassOver(task_queue)
    /\ LET p == ArrayQueuePop(task_queue) IN
        /\ p.some
        /\ LET id == p.value.id
               b == LoopBody(tasks, waker_cache, id) IN
            /\ b.resume
            /\ waker_cache' = b.waker_cache
            /\ resuming' = Append(resuming,
                                  [task_id |-> id, seq |-> p.value.seq,
                                   waker |-> b.waker_cache[id]])
            /\ polls' = [polls EXCEPT ![id] = @ + 1]
            /\ escaped' = IF tasks[id].future.uses_waker
                          THEN escaped \cup {b.waker_cache[id]}
                          ELSE escaped
        /\ task_queue' = p.queue
        /\ lastPop' = p.value
    /\ pc' = InPoll
    /\ UNCHANGED <<NEXT_ID, newTasks, tasks, task_id, interrupts,
                   x86_64_support, newBudget, wakeBudget, issued, shape, wakes, done,
                   pushed, passStart, fatal>>

\* lines 75-82: the resume in progress returns.
PollReturns ==
    /\ pc = "poll"
    /\ resuming # <<>>
    /\ LET cur == resuming[Len(resuming)]
           id == cur.task_id
           r == TaskPoll(tasks[id]) IN
        IF r.poll = "Ready"
        THEN /\ tasks' = OnReady(tasks, waker_cache, id).tasks
             /\ waker_cache' = OnReady(tasks, waker_cache, id).waker_cache
             /\ done' = done \cup {id}
             /\ UNCHANGED <<task_queue, pushed>>
        ELSE /\ tasks' = [tasks EXCEPT ![id] = r.task]
             /\ task_queue' = OnPending(task_queue, pushed, id)
             /\ pushed' = pushed + Len(task_queue') - Len(task_queue)
             /\ UNCHANGED <<waker_cache, done>>
    /\ resuming' = SubSeq(resuming, 1, Len(resuming) - 1)
    /\ pc' = "run_ready_tasks"
    /\ UNCHANGED <<NEXT_ID, newTasks, task_id, interrupts, x86_64_support,
                   escaped, newBudget, wakeBudget, issued, shape, polls, wakes, lastPop,
                   passStart, fatal>>

-----------------------------------------------------------------------------
(* executor.rs: Executor::sleep_if_idle, and the loop of Executor::run     *)

\* A sleep_if_idle that does not disable interrupts.
InterruptsDisableOmitted(flag) == flag

\* interrupts::disable()
InterruptsDisable(flag) == FALSE

\* A sleep_if_idle whose else branch does not enable interrupts.
InterruptsEnableOmitted(flag) == flag

\* interrupts::enable()
InterruptsEnable(flag) == TRUE

\* Without the feature the body is empty: run goes round at once.
SleepNoop ==
    /\ pc = "sleep_if_idle"
    /\ ~x86_64_support
    /\ pc' = "run_ready_tasks"
    /\ passStart' = pushed
    /\ UNCHANGED <<NEXT_ID, newTasks, tasks, task_queue, waker_cache, task_id,
                   resuming, interrupts, x86_64_support, escaped, newBudget, wakeBudget,
                   issued, shape, polls, wakes, done, pushed, lastPop, fatal>>

\* line 94
SleepDisable ==
    /\ pc = "sleep_if_idle"
    /\ x86_64_support
    /\ interrupts' = InterruptsDisable(interrupts)
    /\ pc' = "is_empty"
    /\ UNCHANGED <<NEXT_ID, newTasks, tasks, task_queue, waker_cache, task_id,
                   resuming, x86_64_support, escaped, newBudget, wakeBudget, issued,
                   shape, polls, wakes, done, pushed, lastPop, passStart,
                   fatal>>

\* line 95: if self.task_queue.is_empty()
SleepCheck ==
    /\ pc = "is_empty"
    /\ pc' = IF Len(task_queue) = 0 THEN "enable_and_hlt" ELSE "enable"
    /\ UNCHANGED <<NEXT_ID, newTasks, tasks, task_queue, waker_cache, task_id,
                   resuming, interrupts, x86_64_support, escaped, newBudget, wakeBudget,
                   issued, shape, polls, wakes, done, pushed, lastPop,
                   passStart, fatal>>

\* line 96: enable_and_hlt(): sti; hlt, with no interrupt between the two.
SleepHalt ==
    /\ pc = "enable_and_hlt"
    /\ interrupts' = TRUE
    /\ pc' = "hlt"
    /\ UNCHANGED <<NEXT_ID, newTasks, tasks, task_queue, waker_cache, task_id,
                   resuming, x86_64_support, escaped, newBudget, wakeBudget, issued,
                   shape, polls, wakes, done, pushed, lastPop, passStart,
                   fatal>>

\* line 98: interrupts::enable(), and run goes round.
SleepEnable ==
    /\ pc = "enable"
    /\ interrupts' = InterruptsEnable(interrupts)
    /\ pc' = "run_ready_tasks"
    /\ passStart' = pushed
    /\ UNCHANGED <<NEXT_ID, newTasks, tasks, task_queue, waker_cache, task_id,
                   resuming, x86_64_support, escaped, newBudget, wakeBudget, issued,
                   shape, polls, wakes, done, pushed, lastPop, fatal>>

-----------------------------------------------------------------------------
(* Specifications                                                          *)

EmptyMap == [x \in {} |-> None]

\* The process starts: Executor::new(), NEXT_ID = 0.
Init ==
    /\ NEXT_ID = 0
    /\ done = {}
    /\ newTasks = {}
    /\ tasks = EmptyMap
    /\ task_queue = <<>>
    /\ waker_cache = EmptyMap
    /\ pc = "main"
    /\ task_id = None
    /\ resuming = <<>>
    /\ interrupts = TRUE
    /\ x86_64_support \in BOOLEAN
    /\ escaped = {}
    /\ newBudget = MaxTasks
    /\ wakeBudget = MaxWakes
    /\ issued = <<>>
    /\ shape = EmptyMap
    /\ polls = EmptyMap
    /\ wakes = EmptyMap
    /\ pushed = 0
    /\ lastPop = Entry(None, 0)
    /\ passStart = 0
    /\ fatal = <<>>

\* The process after main has built and spawned QueueCapacity tasks: the
\* first a future that clones its waker and finishes at its first resume,
\* the others futures that finish at once without touching their waker
\* (async {}).  The queue is exactly at capacity.
Prespawned == QueueCapacity

InitFull ==
    /\ NEXT_ID = Prespawned
    /\ done = {}
    /\ newTasks = {}
    /\ tasks = [i \in 0..(Prespawned - 1) |->
                  [id |-> i, future |-> IF i = 0 THEN Immediate ELSE Trivial]]
    /\ shape = [i \in 0..(Prespawned - 1) |-> 0]
    /\ task_queue = [i \in 1..Prespawned |-> Entry(i - 1, i)]
    /\ waker_cache = EmptyMap
    /\ pc = "main"
    /\ task_id = None
    /\ resuming = <<>>
    /\ interrupts = TRUE
    /\ x86_64_support \in BOOLEAN
    /\ escaped = {}
    /\ newBudget = FullTasks
    /\ wakeBudget = FullWakes
    /\ issued = [i \in 1..Prespawned |-> [id |-> i - 1, late |-> FALSE]]
    /\ polls = [i \in 0..(Prespawned - 1) |-> 0]
    /\ wakes = [i \in 0..(Prespawned - 1) |-> 0]
    /\ pushed = Prespawned
    /\ lastPop = Entry(None, 0)
    /\ passStart = 0
    /\ fatal = <<>>

\* The process starts, with delivery of interrupts enabled or not: the code
\* does not say in which state Executor::run is to be entered.
InitBoot ==
    /\ NEXT_ID = 0
    /\ done = {}
    /\ newTasks = {}
    /\ tasks = EmptyMap
    /\ task_queue = <<>>
    /\ waker_cache = EmptyMap
    /\ pc = "main"
    /\ task_id = None
    /\ resuming = <<>>
    /\ interrupts \in BOOLEAN
    /\ x86_64_support \in BOOLEAN
    /\ escaped = {}
    /\ newBudget = MaxTasks
    /\ wakeBudget = MaxWakes
    /\ issued = <<>>
    /\ shape = EmptyMap
    /\ polls = EmptyMap
    /\ wakes = EmptyMap
    /\ pushed = 0
    /\ lastPop = Entry(None, 0)
    /\ passStart = 0
    /\ fatal = <<>>

\* The process after NEXT_ID has wrapped round to 0 (2^64 calls of Task::new)
\* while the task with identifier 1 is spawned and not yet resumed: the one
\* way the code has of handing spawn an identifier that is in the table.
\* `issued` and the other histories start again at the wrap.
InitWrapped ==
    /\ NEXT_ID = 0
    /\ done = {}
    /\ newTasks = {}
    /\ tasks = [i \in {1} |-> [id |-> i,
                               future |-> [pending |-> 1, uses_waker |-> TRUE]]]
    /\ task_queue = <<Entry(1, 1)>>
    /\ waker_cache = EmptyMap
    /\ pc = "main"
    /\ task_id = None
    /\ resuming = <<>>
    /\ interrupts = TRUE
    /\ x86_64_support \in BOOLEAN
    /\ escaped = {}
    /\ newBudget = MaxTasks
    /\ wakeBudget = MaxWakes
    /\ issued = <<>>
    /\ shape = [i \in {1} |-> 1]
    /\ polls = [i \in {1} |-> 0]
    /\ wakes = [i \in {1} |-> 0]
    /\ pushed = 1
    /\ lastPop = Entry(None, 0)
    /\ passStart = 0
    /\ fatal = <<>>

Executor ==
    \/ \E task \in newTasks : SpawnInsert(task)
    \/ SpawnPush
    \/ Run
    \/ DrainEmpty
    \/ DrainStale
    \/ DrainResume
    \/ PollReturns
    \/ SleepNoop
    \/ SleepDisable
    \/ SleepCheck
    \/ SleepHalt
    \/ SleepEnable

Next ==
    \/ \E f \in Shapes : TaskNew(f)
    \/ Executor
    \/ \E w \in escaped : WakeFromTask(w)
    \/ \E w \in escaped : WakeFromInterrupt(w)
    \/ \E w \in escaped : WakeFromThread(w)
    \/ Interrupt

Spec == Init /\ [][Next]_vars

SpecFull == InitFull /\ [][Next]_vars

SpecBoot == InitBoot /\ [][Next]_vars

SpecWrapped == InitWrapped /\ [][Next]_vars

\* Liveness.  The executor's thread keeps running: its steps, the return of
\* a poll included, are taken when enabled.  Nothing is assumed of the
\* contexts that invoke wakers.  With x86_64_support the executor is the one
\* processor of a bare-metal machine: wakers are invoked by the task being
\* resumed and by interrupt handlers only.
LiveNext ==
    \/ \E f \in Shapes : TaskNew(f)
    \/ Executor
    \/ \E w \in escaped : WakeFromTask(w)
    \/ \E w \in escaped : WakeFromInterrupt(w)
    \/ \E w \in escaped : ~x86_64_support /\ WakeFromThread(w)
    \/ Interrupt

LiveSpec ==
    /\ Init
    /\ [][LiveNext]_vars
    /\ WF_vars(Executor)

-----------------------------------------------------------------------------
(* Properties                                                              *)

Resumed(t) == \E i \in DOMAIN resuming : resuming[i].task_id = t

\* C2: at most one task is being resumed at any instant: whatever waker
\* invocations other contexts make, a resume is in progress only while the
\* executor's thread is inside Task::poll, so no resume of any task starts
\* while another (of the same or of a different task) is in progress.
OneResumeAtATime ==
    /\ Len(resuming) <= 1
    /\ resuming # <<>> => pc \in {"poll", "panic"}

\* A resume is in progress while the queue holds a wake of the task being
\* resumed and an identifier of another task.
ResumeWithOthersReady ==
    /\ pc = "poll"
    /\ Len(resuming) = 1
    /\ \E i, j \in DOMAIN task_queue :
        /\ task_queue[i].id = resuming[1].task_id
        /\ task_queue[j].id # resuming[1].task_id

\* C5: Completed is terminal: once a resume of a task has returned Ready the
\* task is out of the task table and is never resumed again, whatever wakes
\* and duplicate identifiers follow; a task that completes on its first
\* resume is resumed exactly once.
CompletedIsTerminal ==
    /\ [](\A t \in done :
            /\ t \notin DOMAIN tasks
            /\ ~Resumed(t)
            /\ shape[t] = 0 => polls[t] = 1)
    /\ [][\A t \in done :
            /\ t \in done'
            /\ t \notin DOMAIN tasks'
            /\ polls'[t] = polls[t]]_vars

\* A task that completed on its first resume was woken twice and every
\* identifier of it has been popped, the last one pushed after it completed.
CompletedWokenAgain ==
    \E t \in done :
        /\ shape[t] = 0
        /\ polls[t] = 1
        /\ wakes[t] >= 2
        /\ task_queue = <<>>
        /\ lastPop.id = t
        /\ lastPop.late

\* C7: a task that suspends exactly k times is resumed at most k+1 times, a
\* resume beyond the first needs an invocation of its waker, the (k+1)-th
\* resume is the one that completes it (so it completes after at least k
\* invocations), and once complete it is out of the task table.
ResumeCount ==
    /\ \A t \in DOMAIN polls :
        /\ polls[t] <= shape[t] + 1
        /\ polls[t] <= 1 + wakes[t]
    /\ \A t \in DOMAIN tasks \ done :
        tasks[t].future.pending + polls[t]
            = shape[t] + (IF Resumed(t) THEN 1 ELSE 0)
    /\ \A t \in done :
        /\ polls[t] = shape[t] + 1
        /\ wakes[t] >= shape[t]
        /\ t \notin DOMAIN tasks

\* A task that suspends once has completed after exactly one invocation of
\* its waker and two resumes.
SuspendedOnceCompleted ==
    \E t \in done : shape[t] = 1 /\ wakes[t] = 1 /\ polls[t] = 2

\* C8: the counter starts at 0 and every Task::new takes its value and adds
\* one, so the identifiers issued are pairwise distinct, and that of a
\* completed task is not issued again; every identifier the executor holds
\* was issued.
TaskIdsDistinct ==
    /\ NEXT_ID = Len(issued)
    /\ \A i \in DOMAIN issued : issued[i].id = i - 1
    /\ \A i, j \in DOMAIN issued : i # j => issued[i].id # issued[j].id
    /\ \A i \in DOMAIN issued : issued[i].late => issued[i].id \notin done
    /\ \A t \in newTasks : \E i \in DOMAIN issued : issued[i].id = t.id
    /\ \A t \in DOMAIN tasks \cup done : \E i \in DOMAIN issued : issued[i].id = t

\* An identifier has been issued after a spawned task completed.
IssuedAfterCompletion ==
    /\ done # {}
    /\ \E i \in DOMAIN issued : issued[i].late

\* C9, as claimed: a drain pass resumes only identifiers that were in the
\* queue when the pass began.
PassResumesSnapshotOnly ==
    \A i \in DOMAIN resuming : resuming[i].seq <= passStart

\* C9, amended: a drain pass ends only when a pop finds the queue empty, so
\* every identifier pushed before that pop, those pushed while the pass was
\* running included, has been popped in that pass.
PassEndsOnEmptyQueue ==
    [][(pc = "run_ready_tasks" /\ pc' = "sleep_if_idle")
        => (task_queue = <<>> /\ lastPop.seq = pushed /\ passStart <= pushed)]_vars

\* A resume is in progress for an identifier pushed after the pass began.
WakeConsumedInSamePass ==
    /\ pc = "poll"
    /\ resuming # <<>>
    /\ resuming[1].seq > passStart

\* C10: identifiers are popped in the order of their insertion: every entry
\* still queued was pushed after the entry popped last, the queue is in push
\* order, and the task being resumed is that of the entry popped last.
FifoOrder ==
    /\ \A i \in DOMAIN task_queue : task_queue[i].seq > lastPop.seq
    /\ \A i, j \in DOMAIN task_queue :
        i < j => task_queue[i].seq < task_queue[j].seq
    /\ \A i \in DOMAIN resuming :
        resuming[i].seq = lastPop.seq /\ resuming[i].task_id = lastPop.id

\* The task of an earlier identifier is being resumed while a later
\* identifier of another live task waits.
EarlierResumedFirst ==
    /\ pc = "poll"
    /\ resuming # <<>>
    /\ \E j \in DOMAIN task_queue :
        /\ task_queue[j].id # resuming[1].task_id
        /\ task_queue[j].id \in DOMAIN tasks
        /\ task_queue[j].seq > resuming[1].seq
    /\ resuming[1].seq >= 2

\* C4: no ready notification is silently dropped: the queue never holds
\* more than QueueCapacity identifiers; the push of spawn and every
\* invocation of a waker either appends the identifier or, the queue being
\* at capacity, panics and leaves the queue as it is; a spawn that finds
\* the queue at capacity always panics.
NoSilentDrop ==
    /\ [](Len(task_queue) <= QueueCapacity)
    /\ [][/\ (pc = "spawn" /\ pc' # "spawn") =>
               IF Len(task_queue) < QueueCapacity
               THEN /\ task_queue' = Append(task_queue, Entry(task_id, pushed + 1))
                    /\ fatal' = fatal
               ELSE /\ task_queue' = task_queue
                    /\ fatal' = Append(fatal, <<"spawn", "queue full">>)
                    /\ pc' = "panic"
          /\ \A t \in DOMAIN wakes :
               wakes'[t] # wakes[t] =>
                   IF Len(task_queue) < QueueCapacity
                   THEN /\ task_queue' = Append(task_queue, Entry(t, pushed + 1))
                        /\ fatal' = fatal
                   ELSE /\ task_queue' = task_queue
                        /\ Len(fatal') = Len(fatal) + 1
                        /\ fatal'[Len(fatal')][2] = "task_queue full"]_vars

\* The queue held exactly QueueCapacity identifiers and one more spawn
\* panicked.
SpawnAtCapacityPanicked ==
    /\ pc = "panic"
    /\ Len(task_queue) = QueueCapacity
    /\ fatal = <<(<<"spawn", "queue full">>)>>

\* C6, as claimed: invoking the waker of a completed task never errors.
StaleWakeNeverErrors ==
    [][\A t \in done : wakes'[t] # wakes[t] => fatal' = fatal]_vars

\* C6, amended: invoking the waker of a completed task while the queue is
\* below capacity does not error and only appends the identifier (at
\* capacity it panics like any other invocation); an identifier popped with
\* no task in the table is skipped: nothing is resumed, and the task table
\* and the waker cache stay as they are.
StaleWakeHarmless ==
    [][/\ \A t \in done :
            wakes'[t] # wakes[t] =>
                /\ tasks' = tasks
                /\ waker_cache' = waker_cache
                /\ polls' = polls
                /\ resuming' = resuming
                /\ IF Len(task_queue) < QueueCapacity
                   THEN /\ fatal' = fatal
                        /\ task_queue' = Append(task_queue, Entry(t, pushed + 1))
                   ELSE /\ fatal' # fatal
                        /\ task_queue' = task_queue
       /\ (/\ Len(task_queue') < Len(task_queue)
           /\ Head(task_queue).id \notin DOMAIN tasks) =>
                /\ task_queue' = Tail(task_queue)
                /\ tasks' = tasks
                /\ waker_cache' = waker_cache
                /\ polls' = polls
                /\ resuming' = resuming
                /\ fatal' = fatal
                /\ pc' = pc]_vars

\* An identifier pushed by a wake after its task completed has been popped
\* and skipped.
StaleWakeSkipped ==
    /\ pc = "run_ready_tasks"
    /\ lastPop.late
    /\ lastPop.id \in done
    /\ lastPop.id \notin DOMAIN tasks
    /\ lastPop.id \notin DOMAIN waker_cache
    /\ resuming = <<>>
    /\ fatal = <<>>

TaskIds == 0..(MaxTasks - 1)

\* Task t has been resumed, returned Pending, and waits for its waker: no
\* identifier of it is in the queue.
Suspended(t) ==
    /\ t \in DOMAIN tasks
    /\ t \notin done
    /\ polls[t] > 0
    /\ ~Resumed(t)
    /\ t \notin Ids(task_queue)

Quiescent == DOMAIN tasks = {} /\ task_queue = <<>>

\* C1: quiescence: unless some task stays suspended for ever with its waker
\* never invoked again, the run loop reaches a state in which the task table
\* and the ready queue are empty, and stays there.
Quiescence ==
    \/ \E t \in TaskIds : <>[]Suspended(t)
    \/ <>[]Quiescent

\* Every spawned task has completed, one of them after suspending, and the
\* task table and the queue are empty.
QuiescentAfterSuspension ==
    /\ Quiescent
    /\ pc \in {"sleep_if_idle", "hlt"}
    /\ Cardinality(done) >= 2
    /\ \E t \in done : shape[t] >= 1

\* C3: no lost wakeup: the executor is never halted while the ready queue
\* holds an identifier, and a live task whose identifier is in the queue is
\* eventually resumed.
NoLostWakeup ==
    /\ [](pc = "hlt" => task_queue = <<>>)
    /\ \A t \in TaskIds :
        (t \in Ids(task_queue) /\ t \in DOMAIN tasks) ~> Resumed(t)

\* A wake arrived between the end of the drain pass and the disabling of
\* interrupts: the check finds the queue non-empty and the halt is skipped.
HaltSkipped ==
    /\ x86_64_support
    /\ pc = "enable"
    /\ ~interrupts
    /\ task_queue # <<>>
    /\ \E t \in DOMAIN tasks : t \in Ids(task_queue) /\ polls[t] > 0

-----------------------------------------------------------------------------
(* simple_executor.rs.  SimpleExecutor has one field, task_queue, a         *)
(* VecDeque<Task>; its run is a plain call on the caller's thread.  The     *)
(* model keeps it in the variable task_queue, each Task with two history    *)
(* fields: its spawn number and the number of times it was pushed back.     *)

\* VecDeque::push_back
VecDequePushBack(q, v) == Append(q, v)

\* VecDeque::pop_front
VecDequePopFront(q) ==
    IF q = <<>>
    THEN [some |-> FALSE, queue |-> q]
    ELSE [some |-> TRUE, value |-> Head(q), queue |-> Tail(q)]

\* A Task in the queue, with its history.
Queued(task, n, k) == [task |-> task, spawned |-> n, requeued |-> k]

QueuedIds(q) == {q[i].task.id : i \in DOMAIN q}

\* dummy_raw_waker: RawWaker::new(0 as *const (), vtable)
dummy_raw_waker == [data |-> 0]

\* dummy_waker: Waker::from_raw(dummy_raw_waker())
dummy_waker == dummy_raw_waker

\* A wake that moves the front of the executor's queue to its back.
no_opRotate(q) == IF q = <<>> THEN q ELSE Append(Tail(q), Head(q))

\* fn no_op(_: *const ()) {}: wake, wake_by_ref and drop of the vtable.
no_op(q) == q

\* A Pending arm that drops the task.
SimpleOnPendingDrop(q, e) == q

\* A Pending arm that puts the task back at the front.
SimpleOnPendingFront(q, e) == <<e>> \o q

\* line 36: Poll::Pending => self.task_queue.push_back(task)
SimpleOnPending(q, e) == VecDequePushBack(q, e)

\* SimpleExecutor::spawn
SimpleSpawn(task) ==
    /\ pc = "main"
    /\ task \in newTasks
    /\ newTasks' = newTasks \ {task}
    /\ task_queue' = VecDequePushBack(task_queue, Queued(task, pushed + 1, 0))
    /\ pushed' = pushed + 1
    /\ UNCHANGED <<NEXT_ID, tasks, waker_cache, pc, task_id, resuming,
                   interrupts, x86_64_support, escaped, newBudget,
                   wakeBudget, issued, shape, polls, wakes, done, lastPop,
                   passStart, fatal>>

\* SimpleExecutor::run is called.
SimpleRun ==
    /\ pc = "main"
    /\ pc' = "simple_run"
    /\ UNCHANGED <<NEXT_ID, newTasks, tasks, task_queue, waker_cache, task_id,
                   resuming, interrupts, x86_64_support, escaped, newBudget,
                   wakeBudget, issued, shape, polls, wakes, done, pushed,
                   lastPop, passStart, fatal>>

\* line 31: pop_front() returns None: run returns to its caller.
SimpleRunReturns ==
    /\ pc = "simple_run"
    /\ ~VecDequePopFront(task_queue).some
    /\ pc' = "main"
    /\ UNCHANGED <<NEXT_ID, newTasks, tasks, task_queue, waker_cache, task_id,
                   resuming, interrupts, x86_64_support, escaped, newBudget,
                   wakeBudget, issued, shape, polls, wakes, done, pushed,
                   lastPop, passStart, fatal>>

\* lines 31-34: pop_front() returns a task: its resume starts, with a fresh
\* dummy waker in the Context.
SimpleResume ==
    /\ pc = "simple_run"
    /\ LET p == VecDequePopFront(task_queue) IN
        /\ p.some
        /\ task_queue' = p.queue
        /\ lastPop' = p.value
        /\ resuming' = Append(resuming,
                              [task_id |-> p.value.task.id,
                               entry |-> p.value,
                               waker |-> dummy_waker])
        /\ polls' = [polls EXCEPT ![p.value.task.id] = @ + 1]
        /\ escaped' = IF p.value.task.future.uses_waker
                      THEN escaped \cup {[waker |-> dummy_waker,
                                          handed_to |-> p.value.task.id]}
                      ELSE escaped
    /\ pc' = "simple_poll"
    /\ UNCHANGED <<NEXT_ID, newTasks, tasks, waker_cache, task_id,
                   interrupts, x86_64_support, newBudget, wakeBudget, issued,
                   shape, wakes, done, pushed, passStart, fatal>>

\* lines 34-37: the resume returns.
SimplePollReturns ==
    /\ pc = "simple_poll"
    /\ resuming # <<>>
    /\ LET cur == resuming[Len(resuming)].entry
           r == TaskPoll(cur.task) IN
        IF r.poll = "Ready"
        THEN /\ done' = done \cup {cur.task.id}
             /\ UNCHANGED <<task_queue, pushed>>
        ELSE /\ task_queue' =
                    SimpleOnPending(task_queue,
                                    Queued(r.task, cur.spawned,
                                           cur.requeued + 1))
             /\ pushed' = pushed + Len(task_queue') - Len(task_queue)
             /\ UNCHANGED done
    /\ resuming' = SubSeq(resuming, 1, Len(resuming) - 1)
    /\ pc' = "simple_run"
    /\ UNCHANGED <<NEXT_ID, newTasks, tasks, waker_cache, task_id,
                   interrupts, x86_64_support, escaped, newBudget,
                   wakeBudget, issued, shape, polls, wakes, lastPop,
                   passStart, fatal>>

\* A dummy waker (or a clone of it: clone returns dummy_raw_waker() again)
\* is invoked, by the task being resumed or by any other context, at any time.
DummyWake(w) ==
    /\ w \in escaped
    /\ wakeBudget > 0
    /\ wakeBudget' = wakeBudget - 1
    /\ wakes' = [wakes EXCEPT ![w.handed_to] = @ + 1]
    /\ task_queue' = no_op(task_queue)
    /\ UNCHANGED <<NEXT_ID, newTasks, tasks, waker_cache, pc, task_id,
                   resuming, interrupts, x86_64_support, escaped, newBudget,
                   issued, shape, polls, done, pushed, lastPop, passStart,
                   fatal>>

\* SimpleExecutor::new(), NEXT_ID = 0.
InitSimple ==
    /\ NEXT_ID = 0
    /\ done = {}
    /\ newTasks = {}
    /\ tasks = EmptyMap
    /\ task_queue = <<>>
    /\ waker_cache = EmptyMap
    /\ pc = "main"
    /\ task_id = None
    /\ resuming = <<>>
    /\ interrupts = TRUE
    /\ x86_64_support = FALSE
    /\ escaped = {}
    /\ newBudget = SimpleTasks
    /\ wakeBudget = SimpleWakes
    /\ issued = <<>>
    /\ shape = EmptyMap
    /\ polls = EmptyMap
    /\ wakes = EmptyMap
    /\ pushed = 0
    /\ lastPop = Queued([id |-> None, future |-> Trivial], 0, 0)
    /\ passStart = 0
    /\ fatal = <<>>

\* The steps of run itself: once called it keeps going.
SimpleExecutorRun ==
    \/ SimpleRunReturns
    \/ SimpleResume
    \/ SimplePollReturns

SimpleNext ==
    \/ \E f \in Shapes : TaskNew(f)
    \/ \E task \in newTasks : SimpleSpawn(task)
    \/ SimpleRun
    \/ SimpleExecutorRun
    \/ \E w \in escaped : DummyWake(w)

SimpleSpec ==
    /\ InitSimple
    /\ [][SimpleNext]_vars
    /\ WF_vars(SimpleExecutorRun)

\* The tasks handed to spawn so far.
SimpleSpawned ==
    {issued[i].id : i \in DOMAIN issued} \ {t.id : t \in newTasks}

-----------------------------------------------------------------------------
(* Properties of SimpleExecutor                                            *)

\* C11: SimpleExecutor::run terminates: once called it returns, it returns
\* only with the queue empty and every spawned task completed; a queued task
\* has been pushed back once for each resume it had, the resume that
\* completes a task that suspends k times is its (k+1)-th, after exactly k
\* push-backs, and a completed task is in the queue no more.
SimpleRunTerminates ==
    /\ [](\A i \in DOMAIN task_queue :
            LET e == task_queue[i] IN
                /\ e.requeued = polls[e.task.id]
                /\ e.task.future.pending + e.requeued = shape[e.task.id]
                /\ e.task.id \notin done)
    /\ [](\A t \in done :
            /\ polls[t] = shape[t] + 1
            /\ t \notin QueuedIds(task_queue)
            /\ ~Resumed(t))
    /\ [][\A t \in done' \ done :
            /\ resuming # <<>>
            /\ resuming[Len(resuming)].task_id = t
            /\ resuming[Len(resuming)].entry.requeued = shape[t]
            /\ task_queue' = task_queue]_vars
    /\ [][(pc = "simple_run" /\ pc' = "main") =>
            /\ task_queue = <<>>
            /\ resuming = <<>>
            /\ SimpleSpawned \subseteq done]_vars
    /\ (pc = "simple_run") ~> (pc = "main")

\* run has returned after three tasks completed, one of them after
\* suspending twice.
SimpleRunReturned ==
    /\ pc = "main"
    /\ task_queue = <<>>
    /\ Cardinality(done) >= 3
    /\ SimpleSpawned = done
    /\ \E t \in done : shape[t] = 2 /\ polls[t] = 3

\* C12: strict round-robin: the queue always holds the unfinished tasks in
\* spawn order, rotated: first those not yet resumed in the current cycle,
\* then those already resumed in it (one resume more), each group in spawn
\* order, with the task being resumed belonging between the two; and a task
\* that returns Pending goes to the back of the queue.
RoundRobin ==
    /\ [](\A i, j \in DOMAIN task_queue :
            i < j =>
                LET a == task_queue[i]
                    b == task_queue[j] IN
                    \/ /\ polls[a.task.id] = polls[b.task.id]
                       /\ a.spawned < b.spawned
                    \/ /\ polls[a.task.id] + 1 = polls[b.task.id]
                       /\ a.spawned > b.spawned)
    /\ [](\A k \in DOMAIN resuming :
            \A i \in DOMAIN task_queue :
                LET c == resuming[k].entry
                    e == task_queue[i] IN
                    \/ /\ polls[e.task.id] = polls[c.task.id]
                       /\ e.spawned < c.spawned
                    \/ /\ polls[e.task.id] + 1 = polls[c.task.id]
                       /\ e.spawned > c.spawned)
    /\ [][(pc = "simple_poll" /\ pc' = "simple_run"
             /\ resuming[Len(resuming)].task_id \notin done') =>
            /\ Len(task_queue') = Len(task_queue) + 1
            /\ SubSeq(task_queue', 1, Len(task_queue)) = task_queue
            /\ task_queue'[Len(task_queue')].task.id
                   = resuming[Len(resuming)].task_id]_vars

\* Of three unfinished tasks the one spawned second is in its second resume:
\* the one spawned third, resumed once, waits in front of the one spawned
\* first, resumed twice.
SecondCycle ==
    /\ pc = "simple_poll"
    /\ resuming # <<>>
    /\ polls[resuming[1].task_id] = 2
    /\ Len(task_queue) = 2
    /\ polls[task_queue[1].task.id] = 1
    /\ task_queue[1].spawned > resuming[1].entry.spawned
    /\ polls[task_queue[2].task.id] = 2
    /\ task_queue[2].spawned < resuming[1].entry.spawned

\* C19: the dummy waker is inert: an invocation of it changes neither the
\* queue nor anything else of the executor; every queued task has been
\* pushed back once per resume whatever invocations there were, and while
\* run is running every queued task is resumed again.
DummyWakerInert ==
    /\ [][(\E t \in DOMAIN wakes : wakes'[t] # wakes[t]) =>
            /\ task_queue' = task_queue
            /\ resuming' = resuming
            /\ pc' = pc
            /\ polls' = polls
            /\ done' = done
            /\ lastPop' = lastPop]_vars
    /\ [](\A i \in DOMAIN task_queue :
            task_queue[i].requeued = polls[task_queue[i].task.id])
    /\ \A t \in 0..(SimpleTasks - 1) :
        (pc # "main" /\ t \in QueuedIds(task_queue)) ~> Resumed(t)

\* Two tasks have each been resumed a second time, one whose waker was
\* invoked and one whose waker never was.
ResumedWithAndWithoutWake ==
    \E t, u \in DOMAIN polls :
        /\ polls[t] >= 2
        /\ wakes[t] = 0
        /\ polls[u] >= 2
        /\ wakes[u] >= 1

-----------------------------------------------------------------------------
(* Further properties of Executor                                          *)

\* C13: the waking executor never re-enqueues on its own: the return of a
\* resume leaves the queue as it is and, when it returned Pending, the task
\* table and the waker cache too; an identifier enters the queue only by
\* the push of spawn (once, before the task's first resume) or by an
\* invocation of a waker; so a task is resumed at most 1 + (invocations of
\* its waker) times, and a suspended task is not resumed again without one.
NoSelfRequeue ==
    /\ [][(pc = "poll" /\ pc' = "run_ready_tasks") =>
            /\ task_queue' = task_queue
            /\ pushed' = pushed
            /\ resuming[Len(resuming)].task_id \notin done' =>
                /\ DOMAIN tasks' = DOMAIN tasks
                /\ waker_cache' = waker_cache
                /\ resuming[Len(resuming)].task_id \in DOMAIN waker_cache]_vars
    /\ [][pushed' # pushed =>
            \/ /\ pc = "spawn"
               /\ task_id \notin Ids(task_queue)
               /\ polls[task_id] = 0
               /\ task_queue' = Append(task_queue, Entry(task_id, pushed + 1))
            \/ \E t \in DOMAIN wakes :
                /\ wakes'[t] = wakes[t] + 1
                /\ task_queue' = Append(task_queue, Entry(t, pushed + 1))]_vars
    /\ [](\A t \in DOMAIN polls : polls[t] <= 1 + wakes[t])
    /\ [][\A t \in DOMAIN polls :
            (Suspended(t) /\ wakes'[t] = wakes[t]) =>
                (polls'[t] = polls[t] /\ Suspended(t)')]_vars

\* A task has suspended, its waker has never been invoked, and the executor
\* has drained the queue and gone idle with the task still in the table.
SuspendedUnwoken ==
    /\ pc \in {"sleep_if_idle", "hlt"}
    /\ task_queue = <<>>
    /\ \E t \in DOMAIN tasks :
        /\ Suspended(t)
        /\ polls[t] = 1
        /\ wakes[t] = 0
        /\ t \in DOMAIN waker_cache

\* C17: ready-queue relationship invariant: every identifier in the queue is
\* that of a task in the task table or of a task that was spawned, completed
\* and was removed; between the insert and the push of spawn the identifier
\* is in the table and not yet in the queue; the identifier of a task not
\* handed to spawn is never in the queue.
QueueRefersToSpawned ==
    /\ \A i \in DOMAIN task_queue :
        /\ task_queue[i].id \in DOMAIN tasks \cup done
        /\ task_queue[i].late => task_queue[i].id \in done
    /\ done \cap DOMAIN tasks = {}
    /\ pc = "spawn" =>
        /\ task_id \in DOMAIN tasks
        /\ task_id \notin Ids(task_queue)
    /\ \A t \in newTasks : t.id \notin Ids(task_queue) /\ t.id \notin done
    /\ \A i \in DOMAIN task_queue : task_queue[i].id < NEXT_ID

\* The queue holds a stale identifier of a completed task and the identifier
\* of a live one.
StaleAndLiveQueued ==
    \E i, j \in DOMAIN task_queue :
        /\ task_queue[i].id \in done
        /\ task_queue[i].id \notin DOMAIN tasks
        /\ task_queue[j].id \in DOMAIN tasks

\* C18: waker-cache invariant: every identifier with a cached waker has a
\* task in the table, was resumed, and its waker is bound to it; a cache
\* entry appears only in the step that starts a resume of that task; the
\* step that removes a task from the table removes its cache entry; so the
\* cache is empty whenever the table is.
WakerCacheInvariant ==
    /\ [](/\ DOMAIN waker_cache \subseteq DOMAIN tasks
          /\ \A t \in DOMAIN waker_cache :
                /\ waker_cache[t].task_id = t
                /\ polls[t] >= 1
          /\ DOMAIN tasks = {} => DOMAIN waker_cache = {})
    /\ [][\A t \in DOMAIN waker_cache' \ DOMAIN waker_cache :
            /\ pc = "run_ready_tasks"
            /\ pc' = "poll"
            /\ t \in DOMAIN tasks
            /\ resuming' = Append(resuming,
                                  [task_id |-> t, seq |-> lastPop'.seq,
                                   waker |-> waker_cache'[t]])]_vars
    /\ [][\A t \in DOMAIN tasks \ DOMAIN tasks' :
            /\ t \in done'
            /\ t \in DOMAIN waker_cache
            /\ DOMAIN waker_cache' = DOMAIN waker_cache \ {t}]_vars
    /\ [][\A t \in DOMAIN waker_cache \ DOMAIN waker_cache' :
            t \in DOMAIN tasks \ DOMAIN tasks']_vars

\* One task has suspended and has its waker cached while another, spawned
\* and not yet resumed, has none.
CachedAndUncached ==
    \E t \in DOMAIN waker_cache :
        /\ Suspended(t)
        /\ \E u \in DOMAIN tasks : u \notin DOMAIN waker_cache /\ polls[u] = 0

\* C20: a wake during the task's own resume is not lost: while a resume is in
\* progress nothing leaves the queue, an invocation of a waker (by the task
\* itself or by another context) appends its identifier, and the return of
\* the resume leaves the queue as it is; and a live task whose resume has
\* returned with its identifier queued is resumed again.
WakeDuringResumeKept ==
    /\ [][pc = "poll" =>
            /\ Len(task_queue') >= Len(task_queue)
            /\ SubSeq(task_queue', 1, Len(task_queue)) = task_queue
            /\ \A t \in DOMAIN wakes :
                (wakes'[t] # wakes[t] /\ fatal' = fatal) =>
                    task_queue' = Append(task_queue, Entry(t, pushed + 1))]_vars
    /\ \A t \in TaskIds :
        (/\ lastPop.id = t
         /\ ~Resumed(t)
         /\ t \in DOMAIN tasks
         /\ t \in Ids(task_queue)) ~> Resumed(t)

\* A task in its first resume, which will return Pending, already has its
\* identifier in the queue again: its waker was invoked during the resume.
WokenDuringFirstResume ==
    /\ pc = "poll"
    /\ \E t \in DOMAIN tasks :
        /\ Resumed(t)
        /\ polls[t] = 1
        /\ wakes[t] = 1
        /\ tasks[t].future.pending >= 1
        /\ t \in Ids(task_queue)

\* Inside sleep_if_idle, between interrupts::disable() and the instruction
\* that enables interrupts again.
InDisableWindow == pc \in {"is_empty", "enable_and_hlt", "enable"}

\* C14, as claimed: with the hardware idle policy no task is ever resumed by
\* the run loop with interrupts disabled.
ResumedWithInterruptsEnabled == (x86_64_support /\ pc = "poll") => interrupts

\* C14, amended: sleep_if_idle halts only after it found the queue empty
\* with interrupts disabled, and skips the halt when it found it non-empty;
\* it is the only place where the run loop disables interrupts, and on both
\* paths it enables them before it returns or halts; a drain pass that
\* follows sleep_if_idle begins with interrupts enabled, and interrupts
\* that are enabled stay enabled from the start of a pass through every
\* resume of it.
HaltOnlyWhenIdle ==
    /\ [](InDisableWindow => (~interrupts /\ x86_64_support))
    /\ [](pc = "hlt" => (interrupts /\ x86_64_support))
    /\ [][(interrupts /\ ~interrupts') =>
            (pc = "sleep_if_idle" /\ pc' = "is_empty")]_vars
    /\ [][(pc = "is_empty" /\ pc' \notin {pc, "panic"}) =>
            pc' = IF task_queue = <<>> THEN "enable_and_hlt" ELSE "enable"]_vars
    /\ [][(pc' = "hlt" /\ pc # "hlt") => pc = "enable_and_hlt"]_vars
    /\ [][(pc \in {"enable_and_hlt", "enable"} /\ pc' \notin {pc, "panic"}) =>
            /\ interrupts'
            /\ pc' = IF pc = "enable" THEN "run_ready_tasks" ELSE "hlt"]_vars
    /\ [][(interrupts /\ pc \in {"run_ready_tasks", "poll"}) =>
            interrupts']_vars
    /\ [][(pc \in {"enable", "hlt"} /\ pc' = "run_ready_tasks") =>
            interrupts']_vars

\* The executor has halted: a task is suspended, the queue is empty and
\* interrupts are enabled.
HaltTaken ==
    /\ x86_64_support
    /\ pc = "hlt"
    /\ interrupts
    /\ task_queue = <<>>
    /\ \E t \in DOMAIN tasks : Suspended(t)

\* C15: spawn with an identifier that is already in the task table always
\* panics, in the step that finds it there and with the queue untouched, so
\* the identifier is not pushed; with a new identifier it goes on to the push;
\* after the panic the executor's thread does nothing more.
DuplicateSpawnFatal ==
    /\ [][(pc = "main" /\ newTasks' # newTasks /\ newTasks' \subseteq newTasks)
            => \A task \in newTasks \ newTasks' :
                /\ task_queue' = task_queue
                /\ pushed' = pushed
                /\ IF task.id \in DOMAIN tasks
                   THEN /\ pc' = "panic"
                        /\ fatal' = Append(fatal,
                               <<"spawn", "task with same ID already in tasks">>)
                   ELSE /\ pc' = "spawn"
                        /\ fatal' = fatal
                        /\ tasks' = [x \in DOMAIN tasks \cup {task.id} |->
                                       IF x = task.id THEN task ELSE tasks[x]]]_vars
    /\ [][pc = "panic" =>
            /\ pc' = "panic"
            /\ task_queue' = task_queue
            /\ tasks' = tasks
            /\ \A t \in DOMAIN polls : polls'[t] = polls[t]]_vars

\* A spawn found its task's identifier in the table and panicked; the queue
\* holds one identifier for it, that of the task spawned first.
DuplicateSpawnPanicked ==
    /\ pc = "panic"
    /\ fatal = <<(<<"spawn", "task with same ID already in tasks">>)>>
    /\ \E i \in DOMAIN issued :
        /\ issued[i].id \in DOMAIN tasks
        /\ Cardinality({j \in DOMAIN task_queue :
                          task_queue[j].id = issued[i].id}) = 1
        /\ \A t \in newTasks : t.id # issued[i].id

\* C16, as claimed: after a fatal condition has been triggered, in whichever
\* context, the executor starts no further resume.
FatalStopsExecutor ==
    [][fatal # <<>> => \A t \in DOMAIN polls : polls'[t] = polls[t]]_vars

=============================================================================
